---------------------------- MODULE Spec2Model ----------------------------
(***************************************************************************)
(* Pantry Pal Scanner (TalaFood): the scan workflow of src/App.tsx, the    *)
(* inventory list mirrored to localStorage, and the Gemini text-extraction *)
(* gateway of src/services/geminiService.ts.                               *)
(*                                                                         *)
(* Text values (product name, expiry date, raw service replies) are        *)
(* sequences of characters over Chars; image data URLs, messages and stage *)
(* names are strings.                                                      *)
(***************************************************************************)
EXTENDS Naturals, Sequences, FiniteSets, TLC

VARIABLES
    scanStage,            \* App.tsx:11
    products,             \* App.tsx:12
    currentNameImage,     \* App.tsx:14
    currentExpiryImage,   \* App.tsx:15
    extractedName,        \* App.tsx:17
    editedName,           \* App.tsx:18
    extractedExpiry,      \* App.tsx:20
    editedExpiry,         \* App.tsx:21
    isLoading,            \* App.tsx:23
    error,                \* App.tsx:24
    storage,              \* the localStorage slot 'pantryProducts'
    boot,                 \* position of the mount sequence (the two effects)
    queued,               \* setProducts queued by the load effect, not yet rendered
    inflight,             \* the pending calls of extractTextFromImage, oldest first
    frames,               \* how many frames the camera has handed to the app
    apiKey,               \* whether process.env.API_KEY is set (geminiService.ts:4)
    nextId,               \* the next identifier crypto.randomUUID() hands out
    now,                  \* the clock read by new Date(); it has advanced at every save
    writeFailures,        \* how often localStorage.setItem has thrown
    event,                \* observer: the handler that ran last
    reply,                \* observer: how the extraction call that resumed last had settled
    before,               \* observer: the session as it was when the pending capture began
    path,                 \* observer: the captures and replies since the last name capture
    isFetchingRecipes,    \* App.tsx:27
    recipes,              \* App.tsx:28
    recipeError,          \* App.tsx:29
    isRecipeModalOpen,    \* App.tsx:30
    recipeCalls,          \* the pending calls of suggestRecipesFromIngredients, oldest first
    recipeRequests,       \* how often handleSuggestRecipes has called the service
    recipeResponse,       \* observer: what generateContent did for the call that resumed last
    recipeReply,          \* observer: how the recipe call that resumed last had settled
    probe,                \* observer: the arguments of the last direct call of the gateway
    answer,               \* observer: how that call settled
    surface,              \* the view whose CameraCapture is mounted, or "none"
    stream,               \* CameraCapture.tsx:15, a feed's number or 0 for null
    cameraError,          \* CameraCapture.tsx:16
    cameraIsLoading,      \* CameraCapture.tsx:17
    acquiring,            \* the pending calls of getUserMedia, oldest first
    feeds,                \* every feed getUserMedia has handed out
    acquisitions,         \* how often getUserMedia has been called
    requests,             \* how often generateContent has been called
    succeeded,            \* observer: the images whose extractions succeeded last, and the
                          \* rounds of Retake All, since the session was reset
    playing               \* the video element shows frames of the stream (it has fired canplay)

vars == <<scanStage, products, currentNameImage, currentExpiryImage,
          extractedName, editedName, extractedExpiry, editedExpiry,
          isLoading, error, storage, boot, queued, inflight, frames, apiKey, nextId, now,
          writeFailures, event, reply, before, path,
          isFetchingRecipes, recipes, recipeError, isRecipeModalOpen, recipeCalls,
          recipeRequests, recipeResponse, recipeReply, probe, answer,
          surface, stream, cameraError, cameraIsLoading, acquiring, feeds, acquisitions,
          requests, playing, succeeded>>

\* the state of the recipe feature, and the observers of the gateway called directly
recipeVars == <<isFetchingRecipes, recipes, recipeError, isRecipeModalOpen, recipeCalls,
                recipeRequests, recipeResponse, recipeReply>>

gatewayVars == <<probe, answer>>

\* the state of the CameraCapture component and of the camera
cameraVars == <<surface, stream, cameraError, cameraIsLoading, acquiring, feeds,
                acquisitions, playing>>

-----------------------------------------------------------------------------
(* Bounds *)

MaxLen == 1      \* longest text value
MaxIds == 1      \* identifiers handed out (records created) in one run
MaxWriteFailures == 1   \* times localStorage.setItem throws in one run
MaxFrames == 3   \* frames captured in one run of the whole app
MaxCaptures == 4 \* frames captured in one run of the scan workflow alone

Chars == {" ", "a"}

Strings == UNION {[1..n -> Chars] : n \in 0..MaxLen}

Null == "null"

Range(f) == {f[i] : i \in DOMAIN f}

-----------------------------------------------------------------------------
(* types.ts *)

IDLE == "IDLE"
AWAITING_NAME_IMAGE == "AWAITING_NAME_IMAGE"
PROCESSING_NAME_IMAGE == "PROCESSING_NAME_IMAGE"
AWAITING_EXPIRY_IMAGE == "AWAITING_EXPIRY_IMAGE"
PROCESSING_EXPIRY_IMAGE == "PROCESSING_EXPIRY_IMAGE"
CONFIRM_DETAILS == "CONFIRM_DETAILS"

ScanStage == {IDLE, AWAITING_NAME_IMAGE, PROCESSING_NAME_IMAGE,
              AWAITING_EXPIRY_IMAGE, PROCESSING_EXPIRY_IMAGE, CONFIRM_DETAILS}

Product(id, name, expiryDate, nameImage, expiryImage, scannedAt) ==
    [id |-> id, name |-> name, expiryDate |-> expiryDate,
     nameImageBase64 |-> nameImage, expiryImageBase64 |-> expiryImage,
     scannedAt |-> scannedAt]

-----------------------------------------------------------------------------
(* Messages *)

MsgLoadFailed == "Could not load saved products."
MsgSaveFailed == "Could not save products. Changes might not persist."
MsgNameEmpty == "Product name cannot be empty."
MsgImagesRequired == "Both product name and expiry images are required."
MsgKeyMissing == "Gemini API Key is not configured."
MsgImageMissing == "Image data is missing."
MsgInvalidFormat == "Invalid image data URL format."
MsgInvalidKey == "Invalid Gemini API Key. Please check your configuration."
MsgQuota == "Gemini API quota exceeded. Please check your usage or billing."
MsgExtractFailed == "Failed to extract text using Gemini API. Check console for details."

-----------------------------------------------------------------------------
(* Text: String.prototype.trim *)

RECURSIVE trimStart(_)
trimStart(s) ==
    IF s # <<>> /\ Head(s) = " " THEN trimStart(Tail(s)) ELSE s

RECURSIVE trimEnd(_)
trimEnd(s) ==
    IF s # <<>> /\ s[Len(s)] = " " THEN trimEnd(SubSeq(s, 1, Len(s) - 1)) ELSE s

trim(s) == trimEnd(trimStart(s))

-----------------------------------------------------------------------------
(* Image data URLs, as canvas.toDataURL produces them: a sequence of the   *)
(* URL's parts.  Every frame of the video encodes differently; a canvas of *)
(* zero width or height (a video without frames yet) encodes as "data:,".  *)

NoImage == <<>>

DataUrl(mime, data) == <<"data:", mime, ";base64", ",", data>>

BlankDataUrl == <<"data:", ",">>

\* what handleCapture passes to onCapture for the n-th frame
Images(n) == {DataUrl("image/jpeg", ToString(n)), BlankDataUrl}

IndexOf(u, part) ==
    IF part \in Range(u)
    THEN CHOOSE i \in DOMAIN u : u[i] = part /\ \A j \in 1..(i - 1) : u[j] # part
    ELSE 0

\* dataUrl.split(',')[1], or '' when there is no comma
getBase64Data(dataUrl) ==
    IF dataUrl = NoImage \/ "," \notin Range(dataUrl) THEN ""
    ELSE LET i == IndexOf(dataUrl, ",")
         IN  IF i < Len(dataUrl) /\ dataUrl[i + 1] # "," THEN dataUrl[i + 1] ELSE ""

-----------------------------------------------------------------------------
(* JSON.stringify / JSON.parse of the collection.  The slot holds nothing  *)
(* (getItem returns null), the empty string, text that does not parse, or  *)
(* the text of an array whose objects are written field by field.          *)

Absent == [kind |-> "absent", body |-> <<>>]
EmptyText == [kind |-> "empty", body |-> <<>>]
Garbage == [kind |-> "garbage", body |-> <<>>]

stringifyProduct(p) ==
    <<p.id, p.name, p.expiryDate, p.nameImageBase64, p.expiryImageBase64, p.scannedAt>>

parseProduct(t) == Product(t[1], t[2], t[3], t[4], t[5], t[6])

JSON_stringify(ps) ==
    [kind |-> "array", body |-> [i \in 1..Len(ps) |-> stringifyProduct(ps[i])]]

JSON_parses(text) == text.kind = "array"

JSON_parse(text) == [i \in 1..Len(text.body) |-> parseProduct(text.body[i])]

\* a record saved by an earlier run of the app
StoredProduct == Product(0, <<"a">>, <<>>, DataUrl("image/jpeg", "name"),
                         DataUrl("image/jpeg", "expiry"), 0)

InitialStorage == {Absent, EmptyText, Garbage, JSON_stringify(<<>>),
                   JSON_stringify(<<StoredProduct>>)}

-----------------------------------------------------------------------------
(* geminiService.ts: extractTextFromImage.  A call is pending until its    *)
(* promise settles: fulfilled with the trimmed reply, or rejected with a   *)
(* message; the handler that awaits it resumes in the same turn.           *)

Pending(kind, image) == [kind |-> kind, image |-> image]

Fulfilled(text) == [status |-> "fulfilled", text |-> text, cause |-> Null, msg |-> Null]

Rejected(cause, msg) == [status |-> "rejected", text |-> <<>>, cause |-> cause, msg |-> msg]

NoReply == [status |-> "none", text |-> <<>>, cause |-> Null, msg |-> Null]

\* what the error thrown by generateContent says (or that no text came back)
ServiceErrors == {"API key not valid", "quota", "other"}

\* the catch block of extractTextFromImage
ServiceErrorMessage(thrown) ==
    IF thrown = "API key not valid" THEN MsgInvalidKey
    ELSE IF thrown = "quota" THEN MsgQuota
    ELSE MsgExtractFailed

\* extractTextFromImage without the check of API_KEY
extractTextFromImage_noKeyCheck(image) ==
    IF image = NoImage THEN {Rejected("no image", MsgImageMissing)}
    ELSE IF getBase64Data(image) = "" THEN {Rejected("no base64 data", MsgInvalidFormat)}
    ELSE {Fulfilled(trim(raw)) : raw \in Strings}
         \cup {Rejected(thrown, ServiceErrorMessage(thrown)) : thrown \in ServiceErrors}

\* the ways a call of extractTextFromImage settles
extractTextFromImage(image) ==
    IF ~apiKey THEN {Rejected("no API_KEY", MsgKeyMissing)}
    ELSE IF image = NoImage THEN {Rejected("no image", MsgImageMissing)}
    ELSE IF getBase64Data(image) = "" THEN {Rejected("no base64 data", MsgInvalidFormat)}
    ELSE {Fulfilled(trim(raw)) : raw \in Strings}
         \cup {Rejected(thrown, ServiceErrorMessage(thrown)) : thrown \in ServiceErrors}

Without(seq, i) == SubSeq(seq, 1, i - 1) \o SubSeq(seq, i + 1, Len(seq))

-----------------------------------------------------------------------------
(* geminiService.ts: suggestRecipesFromIngredients.  The text of a reply   *)
(* is a sequence of tokens: white space, brackets, and one token for each  *)
(* object of an array.                                                     *)

MaxRecipes == 2          \* objects in the array of one reply
MaxRecipeRequests == 2   \* recipe requests of the app in one run

MsgNoIngredients == "No ingredients provided to suggest recipes."
MsgSuggestFailed == "Failed to suggest recipes using Gemini API. Check console for details."
MsgNoRecipes == "Could not find any recipes for the items in your pantry."
MsgPantryEmpty == "Add some items to your pantry first to get recipe suggestions."

\* types.ts: the fields of a Recipe, all three required by the schema
RecipeFields == {"recipeName", "ingredients", "instructions"}

\* the objects a reply may hold: two recipes, and an object with a name only
RecipeTokens == {"r1", "r2", "partial"}

\* the object a token stands for; fields is the set of fields the object has
RecipeObject(token) ==
    [recipeName |-> token, ingredients |-> <<"egg">>, instructions |-> "mix",
     fields |-> IF token = "partial" THEN {"recipeName"} ELSE RecipeFields]

\* the values JSON.parse returns
JsonArray(items) == [type |-> "array", items |-> items]
JsonObject == [type |-> "object", items |-> <<>>]
JsonNull == [type |-> "null", items |-> <<>>]

ArrayText(tokens) == <<"[">> \o tokens \o <<"]">>

\* response.text: arrays of up to MaxRecipes objects, one of them inside white
\* space, the empty text, white space, an object, null, a cut array, prose
ResponseTexts ==
    {ArrayText(tokens) : tokens \in UNION {[1..k -> RecipeTokens] : k \in 0..MaxRecipes}}
    \cup {<<" ">> \o ArrayText(<<"r1">>) \o <<" ">>}
    \cup {<<>>, <<" ">>, <<"{", "}">>, <<"null">>, <<"[", "r1">>, <<"Sorry">>}

JSON_parsesText(text) ==
    \/ text = <<"null">>
    \/ text = <<"{", "}">>
    \/ /\ Len(text) >= 2
       /\ text[1] = "[" /\ text[Len(text)] = "]"
       /\ \A i \in 2..(Len(text) - 1) : text[i] \in RecipeTokens

\* JSON.parse handing back the objects of an array last first
JSON_parseText_reversed(text) ==
    IF text = <<"null">> THEN JsonNull
    ELSE IF text = <<"{", "}">> THEN JsonObject
    ELSE JsonArray([i \in 1..(Len(text) - 2) |-> RecipeObject(text[Len(text) - i])])

JSON_parseText(text) ==
    IF text = <<"null">> THEN JsonNull
    ELSE IF text = <<"{", "}">> THEN JsonObject
    ELSE JsonArray([i \in 1..(Len(text) - 2) |-> RecipeObject(text[i + 1])])

\* what generateContent does: a response with text, a response without text, or
\* an error thrown
TextResponse(text) == [kind |-> "text", text |-> text, thrown |-> Null]
NoTextResponse == [kind |-> "undefined", text |-> <<>>, thrown |-> Null]
ErrorResponse(thrown) == [kind |-> "error", text |-> <<>>, thrown |-> thrown]
NoResponse == [kind |-> "none", text |-> <<>>, thrown |-> Null]

RecipeResponses ==
    {TextResponse(text) : text \in ResponseTexts}
    \cup {NoTextResponse}
    \cup {ErrorResponse(thrown) : thrown \in ServiceErrors}

\* how a call settles; request tells whether generateContent was called
Returned(value) ==
    [status |-> "fulfilled", value |-> value, cause |-> Null, msg |-> Null, request |-> TRUE]

Thrown(cause, msg, request) ==
    [status |-> "rejected", value |-> JsonNull, cause |-> cause, msg |-> msg,
     request |-> request]

NoRecipeReply ==
    [status |-> "none", value |-> JsonNull, cause |-> Null, msg |-> Null, request |-> FALSE]

\* the catch block of suggestRecipesFromIngredients, geminiService.ts:122-133
RecipeErrorMessage(thrown) ==
    IF thrown = "API key not valid" THEN MsgInvalidKey
    ELSE IF thrown = "quota" THEN MsgQuota
    ELSE MsgSuggestFailed

\* suggestRecipesFromIngredients without the check of its argument
suggestRecipesFromIngredients_noInputCheck(ingredients, response) ==
    IF ~apiKey THEN Thrown("no API_KEY", MsgKeyMissing, FALSE)
    ELSE IF response.kind = "error"
    THEN Thrown(response.thrown, RecipeErrorMessage(response.thrown), TRUE)
    ELSE IF response.kind = "undefined" THEN Thrown("TypeError", MsgSuggestFailed, TRUE)
    ELSE LET jsonText == trim(response.text)
         IN  IF jsonText = <<>> THEN Returned(JsonArray(<<>>))
             ELSE IF JSON_parsesText(jsonText) THEN Returned(JSON_parseText(jsonText))
             ELSE Thrown("SyntaxError", MsgSuggestFailed, TRUE)

\* suggestRecipesFromIngredients, geminiService.ts:72-134, given what
\* generateContent does when it is called
suggestRecipesFromIngredients(ingredients, response) ==
    IF ~apiKey THEN Thrown("no API_KEY", MsgKeyMissing, FALSE)
    ELSE IF ingredients = <<>> THEN Thrown("no ingredients", MsgNoIngredients, FALSE)
    ELSE IF response.kind = "error"
    THEN Thrown(response.thrown, RecipeErrorMessage(response.thrown), TRUE)
    ELSE IF response.kind = "undefined" THEN Thrown("TypeError", MsgSuggestFailed, TRUE)
    ELSE LET jsonText == trim(response.text)
         IN  IF jsonText = <<>> THEN Returned(JsonArray(<<>>))
             ELSE IF JSON_parsesText(jsonText) THEN Returned(JSON_parseText(jsonText))
             ELSE Thrown("SyntaxError", MsgSuggestFailed, TRUE)

\* the checks of the arguments and of API_KEY that reject a call before any request,
\* geminiService.ts:26-35 and 73-78
ValidationCauses == {"no API_KEY", "no image", "no base64 data", "no ingredients"}

\* a call that retries once when generateContent throws
Attempts_retriesOnError(outcome) ==
    IF outcome.cause \in ValidationCauses THEN 0
    ELSE IF outcome.status = "rejected" THEN 2 ELSE 1

\* how often a call has called generateContent when it settles: the one call in the
\* try block stands in no loop, geminiService.ts:51-69 and 107-121
Attempts(outcome) == IF outcome.cause \in ValidationCauses THEN 0 ELSE 1

\* the arguments of a direct call
Probe(ingredients, response) == [ingredients |-> ingredients, response |-> response]
NoProbe == Probe(<<>>, NoResponse)

-----------------------------------------------------------------------------
(* App.tsx: what renderContent shows, which decides the handlers on offer  *)

Processing == {PROCESSING_NAME_IMAGE, PROCESSING_EXPIRY_IMAGE}

\* renderContent without the early return for the spinner: a processing stage
\* falls through to the default branch of the switch
renderContent_noSpinner ==
    IF scanStage = AWAITING_NAME_IMAGE THEN "nameCamera"
    ELSE IF scanStage = AWAITING_EXPIRY_IMAGE THEN "expiryCamera"
    ELSE IF scanStage = CONFIRM_DETAILS THEN "confirm"
    ELSE "idle"

\* renderContent, App.tsx:169-323: the view it returns
renderContent ==
    IF isLoading /\ scanStage \in Processing THEN "spinner"
    ELSE IF scanStage = AWAITING_NAME_IMAGE THEN "nameCamera"
    ELSE IF scanStage = AWAITING_EXPIRY_IMAGE THEN "expiryCamera"
    ELSE IF scanStage = CONFIRM_DETAILS THEN "confirm"
    ELSE "idle"

Ready == boot = "ready"

\* the session fields the observers record
Session == [nameImage |-> currentNameImage, expiryImage |-> currentExpiryImage,
            extractedName |-> extractedName, editedName |-> editedName,
            extractedExpiry |-> extractedExpiry, editedExpiry |-> editedExpiry]

\* no extraction has succeeded since the session was last reset
NoSuccess == [name |-> NoImage, expiry |-> NoImage, rounds |-> 0]

-----------------------------------------------------------------------------
(* Initial state: the component before its effects have run *)

Init ==
    /\ scanStage = IDLE
    /\ products = <<>>
    /\ currentNameImage = NoImage
    /\ currentExpiryImage = NoImage
    /\ extractedName = <<>>
    /\ editedName = <<>>
    /\ extractedExpiry = <<>>
    /\ editedExpiry = <<>>
    /\ isLoading = FALSE
    /\ error = Null
    /\ storage \in InitialStorage
    /\ boot = "mounted"
    /\ queued = <<>>
    /\ inflight = <<>>
    /\ frames = 0
    /\ apiKey \in BOOLEAN
    /\ nextId = 1
    /\ now = 1
    /\ writeFailures = 0
    /\ event = "init"
    /\ reply = NoReply
    /\ before = <<>>
    /\ path = <<>>
    /\ isFetchingRecipes = FALSE
    /\ recipes = JsonArray(<<>>)
    /\ recipeError = Null
    /\ isRecipeModalOpen = FALSE
    /\ recipeCalls = <<>>
    /\ recipeRequests = 0
    /\ recipeResponse = NoResponse
    /\ recipeReply = NoRecipeReply
    /\ probe = NoProbe
    /\ answer = NoRecipeReply
    /\ surface = "none"
    /\ stream = 0
    /\ cameraError = Null
    /\ cameraIsLoading = TRUE
    /\ acquiring = <<>>
    /\ feeds = <<>>
    /\ acquisitions = 0
    /\ requests = 0
    /\ playing = FALSE
    /\ succeeded = NoSuccess

sessionVars == <<currentNameImage, currentExpiryImage, extractedName, editedName,
                 extractedExpiry, editedExpiry>>

-----------------------------------------------------------------------------
(* The two effects on mount *)

\* localStorage.setItem either stores the text or throws
setItem(text, ok) == IF ok THEN text ELSE storage

\* the save effect writing the collection of the render before (a stale closure)
SaveProducts_stale(ps, err) ==
    \E ok \in IF writeFailures < MaxWriteFailures THEN BOOLEAN ELSE {TRUE} :
        /\ storage' = setItem(JSON_stringify(products), ok)
        /\ error' = IF ok THEN err ELSE MsgSaveFailed
        /\ writeFailures' = IF ok THEN writeFailures ELSE writeFailures + 1

\* useEffect(save), App.tsx:46-53, run after a render in which products changed;
\* err is the error the render had
SaveProducts(ps, err) ==
    \E ok \in IF writeFailures < MaxWriteFailures THEN BOOLEAN ELSE {TRUE} :
        /\ storage' = setItem(JSON_stringify(ps), ok)
        /\ error' = IF ok THEN err ELSE MsgSaveFailed
        /\ writeFailures' = IF ok THEN writeFailures ELSE writeFailures + 1

\* the load effect without its try/catch telling the text that does not parse
LoadProducts_unchecked ==
    /\ boot = "mounted"
    /\ boot' = "loaded"
    /\ IF storage.kind \in {"absent", "empty"}
       THEN queued' = <<>> /\ error' = error
       ELSE queued' = <<JSON_parse(storage)>> /\ error' = error
    /\ event' = "loadProducts"
    /\ UNCHANGED <<scanStage, products, sessionVars, isLoading, storage, inflight,
                   frames, apiKey, nextId, now, writeFailures, reply, before, path>>
    /\ UNCHANGED <<recipeVars, gatewayVars, cameraVars, requests, succeeded>>

\* useEffect(load), App.tsx:33-43
LoadProducts ==
    /\ boot = "mounted"
    /\ boot' = "loaded"
    /\ IF storage.kind \in {"absent", "empty"}
       THEN queued' = <<>> /\ error' = error
       ELSE IF JSON_parses(storage)
            THEN queued' = <<JSON_parse(storage)>> /\ error' = error
            ELSE queued' = <<>> /\ error' = MsgLoadFailed
    /\ event' = "loadProducts"
    /\ UNCHANGED <<scanStage, products, sessionVars, isLoading, storage, inflight,
                   frames, apiKey, nextId, now, writeFailures, reply, before, path>>
    /\ UNCHANGED <<recipeVars, gatewayVars, cameraVars, requests, succeeded>>

\* useEffect(save) of the first render: products is still the initial []
SaveProductsOnMount ==
    /\ boot = "loaded"
    /\ boot' = "saved"
    /\ SaveProducts(products, error)
    /\ event' = "saveProductsOnMount"
    /\ UNCHANGED <<scanStage, products, sessionVars, isLoading, queued, inflight,
                   frames, apiKey, nextId, now, reply, before, path>>
    /\ UNCHANGED <<recipeVars, gatewayVars, cameraVars, requests, succeeded>>

\* the render of the queued setProducts, and useEffect(save) for the new products
RenderLoaded ==
    /\ boot = "saved"
    /\ boot' = "ready"
    /\ queued' = <<>>
    /\ IF queued = <<>>
       THEN UNCHANGED <<products, storage, error, writeFailures>>
       ELSE /\ products' = queued[1]
            /\ SaveProducts(products', error)
    /\ event' = "renderLoaded"
    /\ UNCHANGED <<scanStage, sessionVars, isLoading, inflight,
                   frames, apiKey, nextId, now, reply, before, path>>
    /\ UNCHANGED <<recipeVars, gatewayVars, cameraVars, requests, succeeded>>

-----------------------------------------------------------------------------
(* The handlers of App.tsx *)

\* resetScanState forgetting the edited fields
resetScanState_keepsEdits ==
    /\ currentNameImage' = NoImage
    /\ currentExpiryImage' = NoImage
    /\ extractedName' = <<>>
    /\ extractedExpiry' = <<>>
    /\ UNCHANGED <<editedName, editedExpiry>>

\* resetScanState, App.tsx:55-63 (its setError(null) is written by each caller below)
resetScanState ==
    /\ currentNameImage' = NoImage
    /\ currentExpiryImage' = NoImage
    /\ extractedName' = <<>>
    /\ editedName' = <<>>
    /\ extractedExpiry' = <<>>
    /\ editedExpiry' = <<>>

\* handleStartScan, App.tsx:65-68
HandleStartScan ==
    /\ Ready /\ renderContent = "idle"
    /\ resetScanState
    /\ error' = Null
    /\ scanStage' = AWAITING_NAME_IMAGE
    /\ event' = "startScan"
    /\ reply' = NoReply /\ before' = <<>> /\ path' = <<>>
    /\ UNCHANGED <<products, isLoading, storage, boot, queued, inflight, frames, apiKey, nextId,
                   now, writeFailures>>
    /\ UNCHANGED <<recipeVars, gatewayVars, cameraVars, requests>>
    /\ succeeded' = NoSuccess

\* handleNameImageCapture up to its await, App.tsx:70-76
HandleNameImageCapture ==
    /\ Ready /\ renderContent = "nameCamera"
    /\ frames < MaxCaptures
    /\ frames' = frames + 1
    /\ \E imageBase64 \in Images(frames') :
         /\ currentNameImage' = imageBase64
         /\ inflight' = Append(inflight, Pending("name", imageBase64))
         /\ path' = <<imageBase64>>
    /\ scanStage' = PROCESSING_NAME_IMAGE
    /\ isLoading' = TRUE
    /\ error' = Null
    /\ event' = "captureName"
    /\ reply' = NoReply /\ before' = <<Session>>
    /\ UNCHANGED <<products, currentExpiryImage, extractedName, editedName,
                   extractedExpiry, editedExpiry, storage, boot, queued, apiKey, nextId, now,
                   writeFailures>>
    /\ UNCHANGED <<recipeVars, gatewayVars, cameraVars, requests, succeeded>>

\* handleExpiryImageCapture up to its await, App.tsx:89-95
HandleExpiryImageCapture ==
    /\ Ready /\ renderContent = "expiryCamera"
    /\ frames < MaxCaptures
    /\ frames' = frames + 1
    /\ \E imageBase64 \in Images(frames') :
         /\ currentExpiryImage' = imageBase64
         /\ inflight' = Append(inflight, Pending("expiry", imageBase64))
         /\ path' = IF Len(path) = 2 THEN Append(path, imageBase64) ELSE <<>>
    /\ scanStage' = PROCESSING_EXPIRY_IMAGE
    /\ isLoading' = TRUE
    /\ error' = Null
    /\ event' = "captureExpiry"
    /\ reply' = NoReply /\ before' = <<Session>>
    /\ UNCHANGED <<products, currentNameImage, extractedName, editedName,
                   extractedExpiry, editedExpiry, storage, boot, queued, apiKey, nextId, now,
                   writeFailures>>
    /\ UNCHANGED <<recipeVars, gatewayVars, cameraVars, requests, succeeded>>

\* a failed name extraction abandoning the scan
NameFailureStage_idle == IDLE

\* a failed name extraction leaving the stage as it is
NameFailureStage_processing == PROCESSING_NAME_IMAGE

\* a failed expiry extraction going on to the details
ExpiryFailureStage_confirm == CONFIRM_DETAILS

\* where a failed extraction sends the stage, App.tsx:83 and App.tsx:102
NameFailureStage == AWAITING_NAME_IMAGE
ExpiryFailureStage == AWAITING_EXPIRY_IMAGE

\* handleNameImageCapture from its await on, App.tsx:76-86
NameImageResumes ==
    /\ \E i \in DOMAIN inflight :
         /\ inflight[i].kind = "name"
         /\ inflight' = Without(inflight, i)
         /\ \E outcome \in extractTextFromImage(inflight[i].image) :
              /\ reply' = outcome
              /\ requests' = requests + Attempts(outcome)
              /\ IF outcome.status = "fulfilled"
                 THEN /\ extractedName' = outcome.text
                      /\ editedName' = outcome.text
                      /\ scanStage' = AWAITING_EXPIRY_IMAGE
                      /\ error' = error
                      /\ event' = "nameExtracted"
                      /\ succeeded' = [succeeded EXCEPT !.name = inflight[i].image]
                      /\ before' = <<>>
                      /\ path' = IF Len(path) = 1 THEN Append(path, outcome.text) ELSE <<>>
                 ELSE /\ UNCHANGED <<extractedName, editedName, before, succeeded>>
                      /\ error' = outcome.msg
                      /\ scanStage' = NameFailureStage
                      /\ event' = "nameFailed"
                      /\ path' = <<>>
    /\ isLoading' = FALSE
    /\ UNCHANGED <<products, currentNameImage, currentExpiryImage, extractedExpiry,
                   editedExpiry, storage, boot, queued, frames, apiKey, nextId, now, writeFailures>>
    /\ UNCHANGED <<recipeVars, gatewayVars, cameraVars>>

\* handleExpiryImageCapture from its await on, App.tsx:95-105
ExpiryImageResumes ==
    /\ \E i \in DOMAIN inflight :
         /\ inflight[i].kind = "expiry"
         /\ inflight' = Without(inflight, i)
         /\ \E outcome \in extractTextFromImage(inflight[i].image) :
              /\ reply' = outcome
              /\ requests' = requests + Attempts(outcome)
              /\ IF outcome.status = "fulfilled"
                 THEN /\ extractedExpiry' = outcome.text
                      /\ editedExpiry' = outcome.text
                      /\ scanStage' = CONFIRM_DETAILS
                      /\ error' = error
                      /\ event' = "expiryExtracted"
                      /\ succeeded' = [succeeded EXCEPT !.expiry = inflight[i].image]
                      /\ before' = <<>>
                      /\ path' = IF Len(path) = 3 THEN Append(path, outcome.text) ELSE <<>>
                 ELSE /\ UNCHANGED <<extractedExpiry, editedExpiry, before, succeeded>>
                      /\ error' = outcome.msg
                      /\ scanStage' = ExpiryFailureStage
                      /\ event' = "expiryFailed"
                      /\ path' = <<>>
    /\ isLoading' = FALSE
    /\ UNCHANGED <<products, currentNameImage, currentExpiryImage, extractedName,
                   editedName, storage, boot, queued, frames, apiKey, nextId, now, writeFailures>>
    /\ UNCHANGED <<recipeVars, gatewayVars, cameraVars>>

\* the name input bound to the newest record as well as to the session
EditName_renamesNewest ==
    /\ Ready
    /\ \/ renderContent = "expiryCamera" /\ currentNameImage # NoImage
       \/ renderContent = "confirm"
    /\ \E value \in Strings \ {editedName} :
         /\ editedName' = value
         /\ products' = IF products = <<>> THEN products
                        ELSE <<[Head(products) EXCEPT !.name = value]>> \o Tail(products)
    /\ event' = "editName"
    /\ reply' = NoReply /\ before' = <<>> /\ path' = <<>>
    /\ UNCHANGED <<scanStage, currentNameImage, currentExpiryImage,
                   extractedName, extractedExpiry, editedExpiry, isLoading, error,
                   storage, boot, queued, inflight, frames, apiKey, nextId, now, writeFailures>>
    /\ UNCHANGED <<recipeVars, gatewayVars, cameraVars, requests, succeeded>>

\* the name input, App.tsx:198-204 and App.tsx:236-243
EditName ==
    /\ Ready
    /\ \/ renderContent = "expiryCamera" /\ currentNameImage # NoImage
       \/ renderContent = "confirm"
    /\ \E value \in Strings \ {editedName} : editedName' = value
    /\ event' = "editName"
    /\ reply' = NoReply /\ before' = <<>> /\ path' = <<>>
    /\ UNCHANGED <<scanStage, products, currentNameImage, currentExpiryImage,
                   extractedName, extractedExpiry, editedExpiry, isLoading, error,
                   storage, boot, queued, inflight, frames, apiKey, nextId, now, writeFailures>>
    /\ UNCHANGED <<recipeVars, gatewayVars, cameraVars, requests, succeeded>>

\* the expiry input, App.tsx:247-254
EditExpiry ==
    /\ Ready /\ renderContent = "confirm"
    /\ \E value \in Strings \ {editedExpiry} : editedExpiry' = value
    /\ event' = "editExpiry"
    /\ reply' = NoReply /\ before' = <<>> /\ path' = <<>>
    /\ UNCHANGED <<scanStage, products, currentNameImage, currentExpiryImage,
                   extractedName, editedName, extractedExpiry, isLoading, error,
                   storage, boot, queued, inflight, frames, apiKey, nextId, now, writeFailures>>
    /\ UNCHANGED <<recipeVars, gatewayVars, cameraVars, requests, succeeded>>

\* handleSaveProduct testing editedName where it should test editedName.trim()
SaveRejection_untrimmed(name, nameImage, expiryImage) ==
    IF name = <<>> THEN MsgNameEmpty
    ELSE IF nameImage = NoImage \/ expiryImage = NoImage THEN MsgImagesRequired
    ELSE Null

\* the two checks of handleSaveProduct, App.tsx:109-116: the message of the
\* check that rejects the save, or Null when both pass
SaveRejection(name, nameImage, expiryImage) ==
    IF trim(name) = <<>> THEN MsgNameEmpty
    ELSE IF nameImage = NoImage \/ expiryImage = NoImage THEN MsgImagesRequired
    ELSE Null

\* newProduct with the two image fields exchanged
newProduct_imagesSwapped(id, scannedAt) ==
    Product(id, trim(editedName), trim(editedExpiry), currentExpiryImage,
            currentNameImage, scannedAt)

\* newProduct, App.tsx:118-125
newProduct(id, scannedAt) ==
    Product(id, trim(editedName), trim(editedExpiry), currentNameImage,
            currentExpiryImage, scannedAt)

\* the updater of setProducts adding the new record behind the others
Prepend_last(p, prevProducts) == prevProducts \o <<p>>

\* the updater of setProducts, App.tsx:126
Prepend(p, prevProducts) == <<p>> \o prevProducts

\* handleSaveProduct, App.tsx:108-129, and the save effect its setProducts triggers
HandleSaveProduct ==
    /\ Ready /\ renderContent = "confirm"
    /\ event' = "saveProduct"
    /\ reply' = NoReply /\ before' = <<>> /\ path' = path
    /\ LET rejection == SaveRejection(editedName, currentNameImage, currentExpiryImage)
       IN  IF rejection # Null
           THEN /\ error' = rejection
                /\ UNCHANGED <<scanStage, products, sessionVars, storage, nextId, now,
                               writeFailures, succeeded>>
           ELSE /\ nextId <= MaxIds
                /\ now' = now + 1
                /\ products' = Prepend(newProduct(nextId, now'), products)
                /\ nextId' = nextId + 1
                /\ scanStage' = IDLE
                /\ resetScanState
                /\ succeeded' = NoSuccess
                /\ SaveProducts(products', Null)
    /\ UNCHANGED <<isLoading, boot, queued, inflight, frames, apiKey>>
    /\ UNCHANGED <<recipeVars, gatewayVars, cameraVars, requests>>

\* the Retake All button, App.tsx:260
HandleRetakeAll ==
    /\ Ready /\ renderContent = "confirm"
    /\ scanStage' = AWAITING_NAME_IMAGE
    /\ event' = "retakeAll"
    /\ reply' = NoReply /\ before' = <<>> /\ path' = <<>>
    /\ UNCHANGED <<products, sessionVars, isLoading, error, storage, boot, queued,
                   inflight, frames, apiKey, nextId, now, writeFailures>>
    /\ UNCHANGED <<recipeVars, gatewayVars, cameraVars, requests>>
    /\ succeeded' = [succeeded EXCEPT !.rounds = @ + 1]

\* a Cancel control on the spinner view as well
CancelOffered_whileProcessing ==
    renderContent \in {"nameCamera", "expiryCamera", "confirm", "spinner"}

\* where a Cancel control is rendered: onClose of both cameras (App.tsx:188, 211)
\* and the Cancel button of the confirm form (App.tsx:264)
CancelOffered == renderContent \in {"nameCamera", "expiryCamera", "confirm"}

\* handleCancelScan, App.tsx:131-134
HandleCancelScan ==
    /\ Ready /\ CancelOffered
    /\ scanStage' = IDLE
    /\ resetScanState
    /\ error' = Null
    /\ event' = "cancelScan"
    /\ reply' = NoReply /\ before' = <<>> /\ path' = <<>>
    /\ UNCHANGED <<products, isLoading, storage, boot, queued, inflight, frames, apiKey, nextId,
                   now, writeFailures>>
    /\ UNCHANGED <<recipeVars, gatewayVars, cameraVars, requests>>
    /\ succeeded' = NoSuccess

\* the filter of handleDeleteProduct keeping only the records added after productId
Filter_newerOnly(ps, productId) == SelectSeq(ps, LAMBDA p : p.id > productId)

\* the filter of handleDeleteProduct, App.tsx:137
Filter(ps, productId) == SelectSeq(ps, LAMBDA p : p.id # productId)

\* handleDeleteProduct putting the removed record back when the write throws
HandleDeleteProduct_rollsBack ==
    /\ Ready /\ renderContent = "idle"
    /\ \E i \in DOMAIN products :
         LET rest == Filter(products, products[i].id)
         IN  /\ SaveProducts(rest, error)
             /\ products' = IF writeFailures' = writeFailures THEN rest ELSE products
    /\ event' = "deleteProduct"
    /\ reply' = NoReply /\ before' = <<>> /\ path' = <<>>
    /\ UNCHANGED <<scanStage, sessionVars, isLoading, boot, queued, inflight,
                   frames, apiKey, nextId, now>>
    /\ UNCHANGED <<recipeVars, gatewayVars, cameraVars, requests, succeeded>>

\* handleDeleteProduct, App.tsx:136-138, from a ProductCard of the idle view,
\* and the save effect its setProducts triggers
HandleDeleteProduct ==
    /\ Ready /\ renderContent = "idle"
    /\ \E i \in DOMAIN products :
         products' = Filter(products, products[i].id)
    /\ SaveProducts(products', error)
    /\ event' = "deleteProduct"
    /\ reply' = NoReply /\ before' = <<>> /\ path' = <<>>
    /\ UNCHANGED <<scanStage, sessionVars, isLoading, boot, queued, inflight,
                   frames, apiKey, nextId, now>>
    /\ UNCHANGED <<recipeVars, gatewayVars, cameraVars, requests, succeeded>>

\* the Dismiss button of the error banner, App.tsx:335-341
DismissError ==
    /\ Ready
    /\ error # Null /\ scanStage # CONFIRM_DETAILS
    /\ error' = Null
    /\ event' = "dismissError"
    /\ reply' = NoReply /\ before' = <<>> /\ path' = <<>>
    /\ UNCHANGED <<scanStage, products, sessionVars, isLoading, storage, boot, queued,
                   inflight, frames, apiKey, nextId, now, writeFailures>>
    /\ UNCHANGED <<recipeVars, gatewayVars, cameraVars, requests, succeeded>>

Next ==
    \/ LoadProducts
    \/ SaveProductsOnMount
    \/ RenderLoaded
    \/ HandleStartScan
    \/ frames < MaxFrames /\ HandleNameImageCapture
    \/ frames < MaxFrames /\ HandleExpiryImageCapture
    \/ NameImageResumes
    \/ ExpiryImageResumes
    \/ EditName
    \/ EditExpiry
    \/ HandleSaveProduct
    \/ HandleRetakeAll
    \/ HandleCancelScan
    \/ HandleDeleteProduct
    \/ DismissError

Spec == Init /\ [][Next]_vars

\* every pending call of extractTextFromImage settles at some time, and the handler
\* that awaits it then resumes
SpecSettling ==
    /\ Init /\ [][Next]_vars
    /\ WF_vars(NameImageResumes)
    /\ WF_vars(ExpiryImageResumes)

\* the scan workflow on its own, from a first run of the app with nothing in the slot,
\* with a frame more than in Spec: a round of Retake All after a retake
NextRetake ==
    \/ LoadProducts
    \/ SaveProductsOnMount
    \/ RenderLoaded
    \/ HandleStartScan
    \/ HandleNameImageCapture
    \/ HandleExpiryImageCapture
    \/ NameImageResumes
    \/ ExpiryImageResumes
    \/ EditName
    \/ EditExpiry
    \/ HandleSaveProduct
    \/ HandleRetakeAll
    \/ HandleCancelScan
    \/ HandleDeleteProduct
    \/ DismissError

InitRetake == Init /\ storage = Absent

SpecRetake == InitRetake /\ [][NextRetake]_vars

-----------------------------------------------------------------------------
(* The recipe feature of App.tsx *)

\* everything but the recipe feature, the gateway observers and event
scanVars == <<scanStage, products, sessionVars, isLoading, error, storage, boot, queued,
              inflight, frames, apiKey, nextId, now, writeFailures, reply, before, path,
              succeeded>>

\* products.map(p => p.name), App.tsx:152
itemNames(ps) == [i \in DOMAIN ps |-> ps[i].name]

\* handleSuggestRecipes keeping the recipes and the error of the request before
HandleSuggestRecipes_keepsRecipes ==
    /\ Ready /\ renderContent = "idle"
    /\ products # <<>> /\ ~isFetchingRecipes
    /\ recipeRequests < MaxRecipeRequests
    /\ isFetchingRecipes' = TRUE
    /\ isRecipeModalOpen' = TRUE
    /\ recipeCalls' = Append(recipeCalls, [ingredients |-> itemNames(products)])
    /\ recipeRequests' = recipeRequests + 1
    /\ event' = "suggestRecipes"
    /\ recipeResponse' = NoResponse
    /\ recipeReply' = NoRecipeReply
    /\ UNCHANGED <<scanVars, recipes, recipeError, gatewayVars, cameraVars, requests>>

\* handleSuggestRecipes up to its await, App.tsx:140-153, from the Suggest Recipes
\* button, which is rendered for a non-empty collection and disabled while fetching
\* (App.tsx:284-287)
HandleSuggestRecipes ==
    /\ Ready /\ renderContent = "idle"
    /\ products # <<>> /\ ~isFetchingRecipes
    /\ recipeRequests < MaxRecipeRequests
    /\ isFetchingRecipes' = TRUE
    /\ recipeError' = Null
    /\ recipes' = JsonArray(<<>>)
    /\ isRecipeModalOpen' = TRUE
    /\ recipeCalls' = Append(recipeCalls, [ingredients |-> itemNames(products)])
    /\ recipeRequests' = recipeRequests + 1
    /\ event' = "suggestRecipes"
    /\ recipeResponse' = NoResponse
    /\ recipeReply' = NoRecipeReply
    /\ UNCHANGED <<scanVars, gatewayVars, cameraVars, requests>>

\* suggestedRecipes && suggestedRecipes.length > 0, App.tsx:154
HasRecipes(value) == value.type = "array" /\ Len(value.items) > 0

\* handleSuggestRecipes reporting a failure in the error banner of the app
SuggestRecipesResumes_sharedError ==
    /\ \E i \in DOMAIN recipeCalls, response \in RecipeResponses :
         LET outcome == suggestRecipesFromIngredients(recipeCalls[i].ingredients, response)
         IN  /\ recipeCalls' = Without(recipeCalls, i)
             /\ recipeReply' = outcome
             /\ requests' = requests + Attempts(outcome)
             /\ recipeResponse' = IF outcome.request THEN response ELSE NoResponse
             /\ IF outcome.status = "fulfilled" /\ HasRecipes(outcome.value)
                THEN /\ recipes' = outcome.value
                     /\ error' = error
                     /\ event' = "recipesArrived"
                ELSE /\ recipes' = recipes
                     /\ error' = IF outcome.status = "fulfilled" THEN MsgNoRecipes
                                 ELSE outcome.msg
                     /\ event' = IF outcome.status = "fulfilled" THEN "noRecipes"
                                 ELSE "recipesFailed"
    /\ isFetchingRecipes' = FALSE
    /\ UNCHANGED <<scanStage, products, sessionVars, isLoading, storage, boot, queued,
                   inflight, frames, apiKey, nextId, now, writeFailures, reply, before,
                   path, succeeded, recipeError, isRecipeModalOpen, recipeRequests,
                   gatewayVars, cameraVars>>

\* handleSuggestRecipes from its await on, App.tsx:153-165
SuggestRecipesResumes ==
    /\ \E i \in DOMAIN recipeCalls, response \in RecipeResponses :
         LET outcome == suggestRecipesFromIngredients(recipeCalls[i].ingredients, response)
         IN  /\ recipeCalls' = Without(recipeCalls, i)
             /\ recipeReply' = outcome
             /\ requests' = requests + Attempts(outcome)
             /\ recipeResponse' = IF outcome.request THEN response ELSE NoResponse
             /\ IF outcome.status = "fulfilled"
                THEN IF HasRecipes(outcome.value)
                     THEN /\ recipes' = outcome.value
                          /\ recipeError' = recipeError
                          /\ event' = "recipesArrived"
                     ELSE /\ recipes' = recipes
                          /\ recipeError' = MsgNoRecipes
                          /\ event' = "noRecipes"
                ELSE /\ recipes' = recipes
                     /\ recipeError' = outcome.msg
                     /\ event' = "recipesFailed"
    /\ isFetchingRecipes' = FALSE
    /\ UNCHANGED <<scanVars, isRecipeModalOpen, recipeRequests, gatewayVars, cameraVars>>

\* what the RecipeModal renders, CameraCapture.tsx:163-237; its props are bound at
\* App.tsx:347-353.  While loading, an error or a list it holds is drawn below the spinner.
RecipeModal ==
    IF ~isRecipeModalOpen THEN {}
    ELSE (IF isFetchingRecipes THEN {"spinner"} ELSE {})
         \cup (IF recipeError # Null /\ ~isFetchingRecipes THEN {"error"} ELSE {})
         \cup (IF ~isFetchingRecipes /\ recipeError = Null /\ Len(recipes.items) = 0
               THEN {"noRecipes"} ELSE {})
         \cup (IF ~isFetchingRecipes /\ recipeError = Null /\ Len(recipes.items) > 0
               THEN {"recipes"} ELSE {})

\* onClose of the RecipeModal, App.tsx:349
CloseRecipeModal ==
    /\ Ready /\ isRecipeModalOpen
    /\ isRecipeModalOpen' = FALSE
    /\ event' = "closeRecipeModal"
    /\ UNCHANGED <<scanVars, isFetchingRecipes, recipes, recipeError, recipeCalls,
                   recipeRequests, recipeResponse, recipeReply, gatewayVars, cameraVars,
                   requests>>

\* the app with its recipe feature
NextApp ==
    \/ Next
    \/ HandleSuggestRecipes
    \/ SuggestRecipesResumes
    \/ CloseRecipeModal

SpecApp == Init /\ [][NextApp]_vars

-----------------------------------------------------------------------------
(* The gateway called directly, with every argument and every reply *)

IngredientLists == UNION {[1..n -> Strings] : n \in 0..(MaxIds + 1)}

\* the one direct call of a run
CallSuggestRecipes ==
    /\ answer = NoRecipeReply
    /\ \E ingredients \in IngredientLists, response \in RecipeResponses :
         /\ probe' = Probe(ingredients, response)
         /\ answer' = suggestRecipesFromIngredients(ingredients, response)
         /\ requests' =
              requests + Attempts(suggestRecipesFromIngredients(ingredients, response))
    /\ UNCHANGED <<scanVars, event, recipeVars, cameraVars>>

NextGateway == CallSuggestRecipes

SpecGateway == Init /\ [][NextGateway]_vars

-----------------------------------------------------------------------------
(* CameraCapture.tsx.  The component is mounted while renderContent shows  *)
(* a camera view; React mounts and unmounts it after the handler that      *)
(* changed the view and before the next event is handled.                  *)

MaxAcquisitions == 3   \* calls of getUserMedia in one run

MsgCameraDenied ==
    "Camera permission denied. Please enable camera access in your browser settings."
MsgNoCamera == "No camera found. Please ensure a camera is connected and enabled."
MsgCameraError == "Error accessing camera: "
MsgCaptureNotReady == "Failed to capture image. Camera not ready."

\* how a call of getUserMedia settles: a feed, or the name of the error thrown
Acquired == "ok"
AcquisitionErrors == {"NotAllowedError", "NotFoundError", "OtherError"}

\* the catch block of startCamera, CameraCapture.tsx:37-49
AcquisitionErrorMessage(name) ==
    IF name = "NotAllowedError" THEN MsgCameraDenied
    ELSE IF name = "NotFoundError" THEN MsgNoCamera
    ELSE MsgCameraError

\* the camera view renderContent shows (App.tsx:181-214), or "none"
CameraView ==
    IF renderContent \in {"nameCamera", "expiryCamera"} THEN renderContent ELSE "none"

\* React has mounted or unmounted the component for the view shown
Reconciled == surface = CameraView

\* stream.getTracks().forEach(track => track.stop()); nothing for null
Stop(fs, s) == [i \in DOMAIN fs |-> IF i = s THEN [fs[i] EXCEPT !.live = FALSE] ELSE fs[i]]

Orphaned(seq) == [i \in DOMAIN seq |-> [seq[i] EXCEPT !.mounted = FALSE]]

\* the stream the cleanup of the mount effect closes over: the effect has no
\* dependencies, so it is the stream of the first render, which is null
\* (CameraCapture.tsx:55-63)
CleanupStream == 0

\* startCamera up to its await, CameraCapture.tsx:19-32; s is the stream its
\* closure holds
startCamera(s) ==
    /\ cameraIsLoading' = TRUE
    /\ cameraError' = Null
    /\ feeds' = Stop(feeds, s)
    /\ acquiring' = Append(acquiring, [mounted |-> TRUE])
    /\ acquisitions' = acquisitions + 1
    /\ playing' = FALSE

\* the component is mounted and its mount effect runs, CameraCapture.tsx:55-56
CameraMount ==
    /\ surface = "none" /\ CameraView # "none"
    /\ acquisitions < MaxAcquisitions
    /\ surface' = CameraView
    /\ startCamera(0)
    /\ stream' = 0
    /\ UNCHANGED <<scanVars, event, recipeVars, gatewayVars, requests>>

\* the component is unmounted and the cleanup of its mount effect runs,
\* CameraCapture.tsx:57-61; its state is gone
CameraUnmount ==
    /\ surface # "none" /\ CameraView = "none"
    /\ surface' = "none"
    /\ feeds' = Orphaned(Stop(feeds, CleanupStream))
    /\ acquiring' = Orphaned(acquiring)
    /\ stream' = 0
    /\ cameraError' = Null
    /\ cameraIsLoading' = TRUE
    /\ playing' = FALSE
    /\ UNCHANGED <<scanVars, event, recipeVars, gatewayVars, acquisitions, requests>>

\* startCamera from its await on, CameraCapture.tsx:26-52; the state of a
\* component that has been unmounted is not set
GetUserMediaSettles ==
    /\ \E i \in DOMAIN acquiring, outcome \in {Acquired} \cup AcquisitionErrors :
         /\ acquiring' = Without(acquiring, i)
         /\ feeds' = IF outcome = Acquired
                     THEN Append(feeds, [live |-> TRUE, mounted |-> acquiring[i].mounted])
                     ELSE feeds
         /\ IF acquiring[i].mounted
            THEN /\ stream' = IF outcome = Acquired THEN Len(feeds') ELSE stream
                 /\ cameraError' = IF outcome = Acquired THEN cameraError
                                   ELSE AcquisitionErrorMessage(outcome)
                 /\ cameraIsLoading' = FALSE
                 /\ playing' = IF outcome = Acquired THEN FALSE ELSE playing
            ELSE UNCHANGED <<stream, cameraError, cameraIsLoading, playing>>
    /\ UNCHANGED <<scanVars, event, recipeVars, gatewayVars, surface, acquisitions, requests>>

\* the Try Again button shown at all times
HandleTryAgain_always ==
    /\ surface # "none" /\ Reconciled
    /\ acquisitions < MaxAcquisitions
    /\ startCamera(stream)
    /\ event' = "tryAgain"
    /\ UNCHANGED <<scanVars, recipeVars, gatewayVars, surface, stream, requests>>

\* the Try Again button, CameraCapture.tsx:112-117, shown with the error
HandleTryAgain ==
    /\ surface # "none" /\ Reconciled
    /\ cameraError # Null
    /\ acquisitions < MaxAcquisitions
    /\ startCamera(stream)
    /\ event' = "tryAgain"
    /\ UNCHANGED <<scanVars, recipeVars, gatewayVars, surface, stream, requests>>

\* handleCanPlay, CameraCapture.tsx:65-67, from onCanPlay of the video element
\* (CameraCapture.tsx:104): the video has frames of the stream to show
HandleCanPlay ==
    /\ surface # "none" /\ Reconciled
    /\ stream # 0 /\ feeds[stream].live
    /\ ~playing
    /\ playing' = TRUE
    /\ cameraIsLoading' = FALSE
    /\ UNCHANGED <<scanVars, event, recipeVars, gatewayVars, surface, stream, cameraError,
                   acquiring, feeds, acquisitions, requests>>

\* canvas.toDataURL of handleCapture, CameraCapture.tsx:74-80: a video that shows
\* frames has a width and a height, so the canvas is not the empty one; before that
\* the canvas may be 0 x 0, whose data URL is "data:,"
toDataURL(image) == playing => image # BlankDataUrl

\* the capture button is rendered and enabled, CameraCapture.tsx:122-126
CameraReady ==
    /\ surface # "none" /\ Reconciled
    /\ cameraError = Null /\ ~cameraIsLoading
    /\ stream # 0

\* the app with the camera component: a handler runs when React has brought the
\* component in line with the view, and a capture comes from the capture button
NextCamera ==
    \/ Reconciled /\ LoadProducts
    \/ Reconciled /\ SaveProductsOnMount
    \/ Reconciled /\ RenderLoaded
    \/ Reconciled /\ HandleStartScan
    \/ CameraReady /\ HandleNameImageCapture /\ toDataURL(currentNameImage')
    \/ CameraReady /\ HandleExpiryImageCapture /\ toDataURL(currentExpiryImage')
    \/ Reconciled /\ NameImageResumes
    \/ Reconciled /\ ExpiryImageResumes
    \/ Reconciled /\ EditName
    \/ Reconciled /\ EditExpiry
    \/ Reconciled /\ HandleSaveProduct
    \/ Reconciled /\ HandleRetakeAll
    \/ Reconciled /\ HandleCancelScan
    \/ Reconciled /\ HandleDeleteProduct
    \/ Reconciled /\ DismissError
    \/ CameraMount
    \/ CameraUnmount
    \/ GetUserMediaSettles
    \/ HandleTryAgain
    \/ HandleCanPlay

\* a first run of the app: nothing in the slot
InitCamera == Init /\ storage = Absent

SpecCamera == InitCamera /\ [][NextCamera]_vars

\* a start at which the slot holds nothing the load effect can use
UnusableStorage == {Absent, EmptyText, Garbage}

InitUnusable == Init /\ storage \in UnusableStorage

SpecUnusable == InitUnusable /\ [][Next]_vars

\* a start at which the slot holds the collection an earlier run has saved
InitStored == Init /\ storage = JSON_stringify(<<StoredProduct>>)

SpecStored == InitStored /\ [][Next]_vars

-----------------------------------------------------------------------------
(* Properties *)

SessionEmpty ==
    /\ currentNameImage = NoImage /\ currentExpiryImage = NoImage
    /\ extractedName = <<>> /\ editedName = <<>>
    /\ extractedExpiry = <<>> /\ editedExpiry = <<>>

\* C1: a save from ConfirmDetails creates a record and goes to Idle only when both
\* images are present and the trimmed edited name is non-empty; any other save
\* leaves the collection and the slot alone, stays in ConfirmDetails and sets the error.
C1_SaveGuard ==
    [][event' = "saveProduct" =>
        /\ scanStage = CONFIRM_DETAILS
        /\ IF /\ currentNameImage # NoImage
              /\ currentExpiryImage # NoImage
              /\ trim(editedName) # <<>>
           THEN /\ Len(products') = Len(products) + 1
                /\ scanStage' = IDLE
           ELSE /\ products' = products
                /\ storage' = storage
                /\ scanStage' = CONFIRM_DETAILS
                /\ error' # Null]_vars

\* a save has been rejected for a name that is only white space
C1_Witness ==
    /\ event = "saveProduct"
    /\ scanStage = CONFIRM_DETAILS
    /\ editedName # <<>> /\ trim(editedName) = <<>>
    /\ error = MsgNameEmpty

\* C2: a cancel happens in a non-idle stage and leaves the stage Idle, the session
\* empty, the error cleared and the collection as it was.
C2_CancelResets ==
    [][event' = "cancelScan" =>
        /\ scanStage # IDLE
        /\ scanStage' = IDLE
        /\ SessionEmpty'
        /\ error' = Null
        /\ products' = products]_vars

\* a cancel has just run
C2_Witness ==
    /\ event = "cancelScan"
    /\ scanStage = IDLE
    /\ SessionEmpty

\* C3: a failed extraction returns the stage to the awaiting stage of its own image,
\* never to Idle, sets the error to the message of that failure (the quota message
\* for a quota failure), creates no record, and a failed expiry extraction keeps
\* the name image and the name text.
C3_FailureReturnsToAwaiting ==
    [][event' \in {"nameFailed", "expiryFailed"} =>
        /\ reply'.status = "rejected"
        /\ error' = reply'.msg
        /\ error' # Null
        /\ reply'.cause = "quota" => error' = MsgQuota
        /\ products' = products
        /\ event' = "nameFailed" =>
             /\ scanStage = PROCESSING_NAME_IMAGE
             /\ scanStage' = AWAITING_NAME_IMAGE
        /\ event' = "expiryFailed" =>
             /\ scanStage = PROCESSING_EXPIRY_IMAGE
             /\ scanStage' = AWAITING_EXPIRY_IMAGE
             /\ currentNameImage # NoImage
             /\ currentNameImage' = currentNameImage
             /\ extractedName' = extractedName
             /\ editedName' = editedName]_vars

\* the extraction of the name image has failed for quota
C3_Witness ==
    /\ event = "nameFailed"
    /\ reply.cause = "quota"
    /\ scanStage = AWAITING_NAME_IMAGE
    /\ error = MsgQuota

HappyPathRecordInserted ==
    /\ Len(products') = Len(products) + 1
    /\ Tail(products') = products
    /\ Head(products').nameImageBase64 = path[1]
    /\ Head(products').name = path[2]
    /\ Head(products').expiryImageBase64 = path[3]
    /\ Head(products').expiryDate = path[4]
    /\ scanStage' = IDLE
    /\ SessionEmpty'

\* C4 as stated: whatever name text and expiry text the two extractions return,
\* capturing the name image, then the expiry image, and saving without an edit
\* inserts one record at the front with that name, that expiry text and the two
\* captured images, leaves the stored records behind it, and ends in Idle with the
\* session reset.
C4_HappyPathAnyName ==
    [][event' = "saveProduct" /\ Len(path) = 4 => HappyPathRecordInserted]_vars

\* C4 amended: the same for every non-empty name text.
C4_HappyPath ==
    [][event' = "saveProduct" /\ Len(path) = 4 /\ path[2] # <<>>
        => HappyPathRecordInserted]_vars

\* a record has been saved at the end of the happy path, in front of a stored one
C4_Witness ==
    /\ event = "saveProduct"
    /\ Len(path) = 4
    /\ scanStage = IDLE
    /\ Len(products) = 2
    /\ products[1].name = path[2]
    /\ products[1].nameImageBase64 # products[1].expiryImageBase64

StageEdge(from, to, by) == scanStage = from /\ scanStage' = to /\ event' = by

\* C5: every change of the stage is a permitted edge taken by the handler of that
\* edge, and a cancel happens in AwaitingNameImage, AwaitingExpiryImage or
\* ConfirmDetails only.
C5_StageEdges ==
    [][/\ scanStage' # scanStage =>
            \/ StageEdge(IDLE, AWAITING_NAME_IMAGE, "startScan")
            \/ StageEdge(AWAITING_NAME_IMAGE, PROCESSING_NAME_IMAGE, "captureName")
            \/ StageEdge(PROCESSING_NAME_IMAGE, AWAITING_EXPIRY_IMAGE, "nameExtracted")
            \/ StageEdge(PROCESSING_NAME_IMAGE, AWAITING_NAME_IMAGE, "nameFailed")
            \/ StageEdge(AWAITING_EXPIRY_IMAGE, PROCESSING_EXPIRY_IMAGE, "captureExpiry")
            \/ StageEdge(PROCESSING_EXPIRY_IMAGE, CONFIRM_DETAILS, "expiryExtracted")
            \/ StageEdge(PROCESSING_EXPIRY_IMAGE, AWAITING_EXPIRY_IMAGE, "expiryFailed")
            \/ StageEdge(CONFIRM_DETAILS, IDLE, "saveProduct")
            \/ StageEdge(CONFIRM_DETAILS, AWAITING_NAME_IMAGE, "retakeAll")
            \/ StageEdge(AWAITING_NAME_IMAGE, IDLE, "cancelScan")
            \/ StageEdge(AWAITING_EXPIRY_IMAGE, IDLE, "cancelScan")
            \/ StageEdge(CONFIRM_DETAILS, IDLE, "cancelScan")
       /\ event' = "cancelScan" =>
            scanStage \in {AWAITING_NAME_IMAGE, AWAITING_EXPIRY_IMAGE, CONFIRM_DETAILS}]_vars

\* Retake All has taken the edge from ConfirmDetails to AwaitingNameImage
C5_Witness ==
    /\ event = "retakeAll"
    /\ scanStage = AWAITING_NAME_IMAGE

\* C6: at most one extraction call is pending; while one is pending the stage is
\* the processing stage of its image, the spinner is shown, and no start, capture,
\* save or retake can be initiated.
C6_OneInFlight ==
    /\ Len(inflight) <= 1
    /\ inflight # <<>> =>
         /\ isLoading
         /\ scanStage = IF inflight[1].kind = "name" THEN PROCESSING_NAME_IMAGE
                        ELSE PROCESSING_EXPIRY_IMAGE
         /\ renderContent = "spinner"
         /\ ~ ENABLED HandleStartScan
         /\ ~ ENABLED HandleNameImageCapture
         /\ ~ ENABLED HandleExpiryImageCapture
         /\ ~ ENABLED HandleSaveProduct
         /\ ~ ENABLED HandleRetakeAll

\* the extraction of an expiry image is pending
C6_Witness ==
    /\ Len(inflight) = 1
    /\ inflight[1].kind = "expiry"
    /\ scanStage = PROCESSING_EXPIRY_IMAGE

\* No cancel runs while an extraction call is pending: the case C7 speaks of (a
\* result arriving after the scan was cancelled) does not arise.
CancelNeverWhilePending ==
    [][event' = "cancelScan" => inflight = <<>> /\ inflight' = <<>>]_vars

\* C8: Retake All moves the stage to AwaitingNameImage and leaves the session
\* without images and with empty extracted and edited texts.
C8_RetakeAllClears ==
    [][event' = "retakeAll" =>
        /\ scanStage' = AWAITING_NAME_IMAGE
        /\ SessionEmpty']_vars

\* C9: after a failed extraction every session field other than the stage and the
\* error has the value it had before the capture that failed.
C9_FailureRetainsNothing ==
    event \in {"nameFailed", "expiryFailed"} =>
        /\ before # <<>>
        /\ Session = before[1]

\* C10: an add or a remove whose write does not throw leaves in the slot a text
\* that parses to exactly the collection in memory; a write that throws leaves the
\* slot as it was; either way the write is attempted with the whole collection.
C10_MirrorAgrees ==
    [][event' \in {"saveProduct", "deleteProduct"} /\ products' # products =>
        IF writeFailures' = writeFailures
        THEN /\ JSON_parses(storage')
             /\ JSON_parse(storage') = products'
        ELSE /\ storage' = storage
             /\ error' = MsgSaveFailed]_vars

\* a record has been removed from a collection of two and the slot holds the rest
C10_Witness ==
    /\ event = "deleteProduct"
    /\ writeFailures = 0
    /\ Len(products) = 1
    /\ products[1].id = 1
    /\ JSON_parses(storage)
    /\ JSON_parse(storage) = products

\* C11: when the write of an add or a remove throws, the collection in memory keeps
\* the change (the new record is at the front, the removed record is gone), the
\* handler completes as it does otherwise, and the error is the save warning once
\* the handler and its effect have run.
C11_FailedWriteKeepsChange ==
    [][event' \in {"saveProduct", "deleteProduct"} /\ writeFailures' # writeFailures =>
        /\ error' = MsgSaveFailed
        /\ scanStage' = IDLE
        /\ event' = "saveProduct" =>
             /\ Len(products') = Len(products) + 1
             /\ Tail(products') = products
             /\ Head(products').id = nextId
        /\ event' = "deleteProduct" =>
             /\ Len(products') < Len(products)
             /\ \E i \in DOMAIN products :
                  /\ products' = Filter(products, products[i].id)
                  /\ \A j \in DOMAIN products' : products'[j].id # products[i].id]_vars

\* a record has been removed, the write threw, and the slot still holds the record
C11_Witness ==
    /\ event = "deleteProduct"
    /\ error = MsgSaveFailed
    /\ products = <<>>
    /\ JSON_parses(storage)
    /\ JSON_parse(storage) # products

\* C12 as stated: at the start, a slot that holds nothing, the empty text or a text
\* that does not parse leaves the collection empty and an error set.
C12_UnusableStorageWarns ==
    [][event' = "loadProducts" /\ storage \in UnusableStorage =>
        /\ products' = <<>> /\ queued' = <<>>
        /\ error' # Null]_vars

\* C12 amended: at the start, a slot that holds nothing or the empty text leaves the
\* collection empty and no error; a text that does not parse leaves the collection
\* empty and the load warning; the collection is still empty and a warning still
\* shown when the mount sequence ends, and from Idle a scan can be started.
C12_UnusableStorageStartsEmpty ==
    /\ [][event' = "loadProducts" /\ storage \in UnusableStorage =>
            /\ products' = <<>> /\ queued' = <<>>
            /\ error' = IF storage = Garbage THEN MsgLoadFailed ELSE Null]_vars
    /\ [][event' \in {"saveProductsOnMount", "renderLoaded"} =>
            /\ products' = <<>> /\ queued' = <<>>
            /\ error # Null => error' # Null]_vars
    /\ [](Ready /\ scanStage = IDLE /\ inflight = <<>> => ENABLED HandleStartScan)

\* after a start from a slot without usable text a scan has been completed
C12_Witness ==
    /\ event = "saveProduct"
    /\ scanStage = IDLE
    /\ Len(products) = 1
    /\ products[1].id = 1

\* identifiers and clock readings decrease from the front: the later a record was
\* created, the nearer the front it is
NewestFirst(ps) ==
    \A i, j \in DOMAIN ps :
        i < j => ps[i].id > ps[j].id /\ ps[i].scannedAt > ps[j].scannedAt

C14_AddThenRemove ==
    /\ [](\A id \in nextId..MaxIds, scannedAt \in {now + 1} :
            LET r == newProduct(id, scannedAt)
            IN  Filter(Prepend(r, products), r.id) = products)
    /\ [][event' = "saveProduct" /\ products' # products =>
            Tail(products') = products]_vars
    /\ [][/\ event = "saveProduct" /\ event' = "deleteProduct"
          /\ \A j \in DOMAIN products' : products'[j].id # Head(products).id
          => products' = Tail(products)]_vars

\* the record added in front of the stored one has been removed again
C14_Witness ==
    /\ event = "deleteProduct"
    /\ nextId = 2
    /\ products = <<StoredProduct>>

Ids(ps) == {ps[i].id : i \in DOMAIN ps}

\* C15: a record comes into the collection only as the new record of an accepted
\* save from ConfirmDetails (or, at the start, as a record read from the slot); a
\* record that stays keeps every field; a record leaves only by a delete, which
\* removes its identifier; and no other handler, the recipe request and its
\* completion included, changes the collection.
C15_RecordLifecycle ==
    [][/\ \A p \in Range(products') \ Range(products) :
            \/ /\ event' = "saveProduct"
               /\ scanStage = CONFIRM_DETAILS /\ renderContent = "confirm"
               /\ p = Head(products')
               /\ p.id = nextId /\ p.id \notin Ids(products)
            \/ /\ event' = "renderLoaded"
               /\ products = <<>>
               /\ queued # <<>> /\ p \in Range(queued[1])
       /\ \A p \in Range(products) \ Range(products') :
            /\ event' = "deleteProduct"
            /\ p.id \notin Ids(products')
       /\ \A p \in Range(products), q \in Range(products') : p.id = q.id => p = q
       /\ event' \notin {"saveProduct", "deleteProduct", "renderLoaded"} =>
            products' = products]_vars

\* a record was created, recipes were asked for and have arrived, the created record
\* was deleted, and the stored record is as it was read
C15_Witness ==
    /\ event = "deleteProduct"
    /\ nextId = 2
    /\ recipeRequests = 1 /\ ~isFetchingRecipes
    /\ HasRecipes(recipes)
    /\ products = <<StoredProduct>>

\* C16: every feed that is live belongs to the component that is mounted: when a
\* component has been unmounted (after a capture, on cancel, after an acquisition
\* error, or with its acquisition still pending), every feed it acquired is stopped.
C16_FeedsReleased ==
    \A i \in DOMAIN feeds : feeds[i].live => feeds[i].mounted /\ surface # "none"

\* the gateway has been called directly
Called == answer.status # "none"

\* C17 as stated: every call with no ingredient fails with the message for missing
\* ingredients, and generateContent is not called.
C17_EmptyInputRejected ==
    Called /\ probe.ingredients = <<>> =>
        /\ answer.status = "rejected"
        /\ answer.msg = MsgNoIngredients
        /\ ~answer.request

\* C17 amended: a call with no ingredient fails without a call of generateContent;
\* with API_KEY set it fails with the message for missing ingredients, without
\* API_KEY with the message for the missing key.
C17_EmptyInputRejectedWithKey ==
    Called /\ probe.ingredients = <<>> =>
        /\ answer.status = "rejected"
        /\ ~answer.request
        /\ answer.msg = IF apiKey THEN MsgNoIngredients ELSE MsgKeyMissing

\* with API_KEY set, a call with no ingredient has failed though the service would
\* have answered with a recipe
C17_Witness ==
    /\ apiKey
    /\ probe = Probe(<<>>, TextResponse(ArrayText(<<"r1">>)))
    /\ answer = Thrown("no ingredients", MsgNoIngredients, FALSE)

\* arrays of recipes that have all three fields
WellFormedTexts == UNION {[1..k -> {"r1", "r2"}] : k \in 0..MaxRecipes}

\* C18: when the reply of the service is empty or white space, the call returns the
\* empty array and does not throw; when it is the text of an array of k recipes
\* with all three fields, the call returns exactly these k recipes in their order,
\* and for k > 0 they become the recipes the modal renders.
C18_RecipeReplies ==
    [][event' \in {"recipesArrived", "noRecipes", "recipesFailed"}
       /\ recipeResponse'.kind = "text" =>
        LET text == trim(recipeResponse'.text)
            items == recipeReply'.value.items
        IN  /\ text = <<>> => recipeReply' = Returned(JsonArray(<<>>))
            /\ \A tokens \in WellFormedTexts : text = ArrayText(tokens) =>
                 /\ recipeReply'.status = "fulfilled"
                 /\ recipeReply'.value.type = "array"
                 /\ Len(items) = Len(tokens)
                 /\ \A k \in DOMAIN tokens :
                      /\ items[k].recipeName = tokens[k]
                      /\ items[k].fields = RecipeFields
                 /\ tokens # <<>> =>
                      /\ event' = "recipesArrived"
                      /\ recipes' = recipeReply'.value
                      /\ recipeError' = Null
                      /\ ~isFetchingRecipes']_vars

\* two recipes have arrived and are shown in the order of the reply
C18_Witness ==
    /\ event = "recipesArrived"
    /\ recipeResponse = TextResponse(ArrayText(<<"r2", "r1">>))
    /\ recipes = JsonArray(<<RecipeObject("r2"), RecipeObject("r1")>>)
    /\ isRecipeModalOpen /\ ~isFetchingRecipes /\ recipeError = Null

\* the value is an array of objects with all three fields
Conforms(value) ==
    /\ value.type = "array"
    /\ \A k \in DOMAIN value.items : value.items[k].fields = RecipeFields

\* C19: a call returns nothing but an array of recipes with all three fields: a
\* reply that parses to something else gives the empty array, and a reply that
\* does not parse makes the call fail with the message of a failed suggestion.
C19_OnlyWellFormed ==
    Called /\ answer.request /\ probe.response.kind = "text" =>
        LET text == trim(probe.response.text)
        IN  /\ answer.status = "fulfilled" => Conforms(answer.value)
            /\ text # <<>> /\ JSON_parsesText(text) /\ ~Conforms(JSON_parseText(text)) =>
                 answer = Returned(JsonArray(<<>>))
            /\ text # <<>> /\ ~JSON_parsesText(text) =>
                 answer = Thrown("SyntaxError", MsgSuggestFailed, TRUE)

\* every image a handler or a caller can pass to extractTextFromImage
AnyImage == {NoImage, BlankDataUrl} \cup {DataUrl("image/jpeg", ToString(n)) : n \in 0..MaxCaptures}

\* C20: without API_KEY every call of extractTextFromImage and of
\* suggestRecipesFromIngredients, whatever its argument and whatever the service
\* would do, fails with the message for the missing key and without a request; the
\* calls the app makes settle so; and the idle view still offers the delete of every
\* record shown, which removes that record.
C20_NoKeyDegradesGateway ==
    /\ [](~apiKey =>
            /\ \A image \in AnyImage :
                 extractTextFromImage(image) = {Rejected("no API_KEY", MsgKeyMissing)}
            /\ \A ingredients \in {<<>>, itemNames(products)}, response \in RecipeResponses :
                 suggestRecipesFromIngredients(ingredients, response)
                     = Thrown("no API_KEY", MsgKeyMissing, FALSE))
    /\ [][~apiKey =>
            /\ event' \notin {"nameExtracted", "expiryExtracted", "recipesArrived", "noRecipes"}
            /\ event' \in {"nameFailed", "expiryFailed"} =>
                 /\ reply' = Rejected("no API_KEY", MsgKeyMissing)
                 /\ error' = MsgKeyMissing
            /\ event' = "recipesFailed" =>
                 /\ recipeReply' = Thrown("no API_KEY", MsgKeyMissing, FALSE)
                 /\ recipeError' = MsgKeyMissing
            /\ event' = "deleteProduct" =>
                 \E k \in DOMAIN products : products' = Without(products, k)]_vars
    /\ [](~apiKey /\ Ready /\ renderContent = "idle" /\ products # <<>> =>
            ENABLED HandleDeleteProduct)

\* without API_KEY a capture and a recipe request have failed for the missing key
\* and the stored record has then been deleted
C20_Witness ==
    /\ ~apiKey
    /\ event = "deleteProduct"
    /\ frames > 0
    /\ recipeError = MsgKeyMissing
    /\ recipeReply.cause = "no API_KEY"
    /\ products = <<>>

\* the checks that reject an image before any request is sent, read off the image
ImageRejected(image) == ~apiKey \/ image = NoImage \/ getBase64Data(image) = ""

\* the checks that reject a list of ingredients before any request is sent
IngredientsRejected(ingredients) == ~apiKey \/ ingredients = <<>>

\* C21: no automatic retry.  A capture handed to the app becomes one pending call, and
\* the call sends exactly one request by the time it settles, none when a check of its
\* input rejects it first; the same holds of a recipe request.  Requests are sent
\* only by calls the user has started by a capture or by the Suggest Recipes button:
\* after a failure none is pending, and the requests sent and pending never exceed the
\* captures and the recipe requests the user has made.
C21_NoAutomaticRetry ==
    /\ [][/\ inflight' # inflight =>
               \/ /\ event' \in {"captureName", "captureExpiry"}
                  /\ frames' = frames + 1
                  /\ \E image \in Images(frames') :
                       inflight' = Append(inflight, Pending(inflight'[Len(inflight')].kind, image))
                  /\ requests' = requests
               \/ /\ event' \in {"nameExtracted", "nameFailed", "expiryExtracted", "expiryFailed"}
                  /\ \E i \in DOMAIN inflight :
                       /\ inflight' = Without(inflight, i)
                       /\ requests' = requests
                            + (IF ImageRejected(inflight[i].image) THEN 0 ELSE 1)
          /\ recipeCalls' # recipeCalls =>
               \/ /\ event' = "suggestRecipes"
                  /\ recipeRequests' = recipeRequests + 1
                  /\ Len(recipeCalls') = Len(recipeCalls) + 1
                  /\ requests' = requests
               \/ /\ event' \in {"recipesArrived", "noRecipes", "recipesFailed"}
                  /\ \E i \in DOMAIN recipeCalls :
                       /\ recipeCalls' = Without(recipeCalls, i)
                       /\ requests' = requests
                            + (IF IngredientsRejected(recipeCalls[i].ingredients) THEN 0 ELSE 1)
          /\ requests' # requests => inflight' # inflight \/ recipeCalls' # recipeCalls
          /\ event' \in {"nameFailed", "expiryFailed"} => inflight' = <<>>
          /\ event' = "recipesFailed" => recipeCalls' = <<>>]_vars
    /\ [](requests + Len(inflight) + Len(recipeCalls) <= frames + recipeRequests)

\* the first capture was rejected for its data before any request, the two retakes
\* were each answered by one failing request
C21_Witness ==
    /\ event = "nameFailed"
    /\ reply.cause \in ServiceErrors
    /\ frames = 3
    /\ requests = 2
    /\ inflight = <<>>

\* C22: while a recipe request is loading the held list of recipes is empty and the
\* recipe error is cleared, and the modal shows the spinner alone; the request clears
\* both in the step that starts it.  A list the modal shows is the list the latest
\* request was answered with, never that of a request before it.
C22_NoStaleRecipes ==
    /\ [](isFetchingRecipes =>
            /\ recipes = JsonArray(<<>>)
            /\ recipeError = Null
            /\ RecipeModal \subseteq {"spinner"})
    /\ [](recipes # JsonArray(<<>>) =>
            /\ recipeReply.status = "fulfilled"
            /\ recipes = recipeReply.value)
    /\ []("recipes" \in RecipeModal => ~isFetchingRecipes /\ recipes = recipeReply.value)
    /\ [][event' = "suggestRecipes" =>
            /\ isFetchingRecipes' /\ isRecipeModalOpen'
            /\ recipes' = JsonArray(<<>>)
            /\ recipeError' = Null
            /\ RecipeModal' = {"spinner"}]_vars

\* the second recipe request is loading; the first one had reached the service and
\* was answered
C22_Witness ==
    /\ isFetchingRecipes
    /\ recipeRequests = 2
    /\ requests = 1
    /\ frames = 0
    /\ RecipeModal = {"spinner"}

\* the capture button has handed a frame to the app in this step
Captured == event' \in {"captureName", "captureExpiry"} /\ frames' # frames

\* C23: a capture hands exactly one image to the app, and it does so only from a feed
\* that is open and showing frames; with no such feed the capture fails as not ready:
\* no image reaches the app, no extraction call is started and the stage stays.
C23_CaptureNeedsFrames ==
    [][Captured =>
        /\ stream # 0 /\ feeds[stream].live
        /\ playing
        /\ frames' = frames + 1
        /\ Len(inflight') = Len(inflight) + 1]_vars

\* the feeds that are open for the mounted component
OpenFeeds == {i \in DOMAIN feeds : feeds[i].live /\ feeds[i].mounted}

\* the calls of getUserMedia that are pending for the mounted component
PendingAcquisitions == {i \in DOMAIN acquiring : acquiring[i].mounted}

\* C24: the mounted camera component has at most one open feed, the one it holds, and
\* at most one pending acquisition, and never both: Try Again starts its acquisition
\* with no feed open and none pending.  (A component has one or the other when it is
\* unmounted at most, so the same holds of it afterwards.)
C24_OneFeedPerInstance ==
    /\ [](/\ Cardinality(OpenFeeds) <= 1
          /\ Cardinality(PendingAcquisitions) <= 1
          /\ OpenFeeds # {} => PendingAcquisitions = {} /\ OpenFeeds = {stream}
          /\ surface = "none" => OpenFeeds = {} /\ PendingAcquisitions = {})
    /\ [][event' = "tryAgain" /\ acquisitions' # acquisitions =>
            /\ surface' = surface /\ surface # "none"
            /\ PendingAcquisitions = {}
            /\ OpenFeeds' = {}
            /\ Cardinality(PendingAcquisitions') = 1]_vars

\* the camera failed at the mount and at the first Try Again; the second Try Again
\* has acquired the feed the component holds
C24_Witness ==
    /\ event = "tryAgain"
    /\ acquisitions = 3
    /\ feeds = <<[live |-> TRUE, mounted |-> TRUE]>>
    /\ stream = 1
    /\ acquiring = <<>>

\* C25: in the stage ConfirmDetails both images are present and each is the image
\* whose extraction succeeded last, so that a save is never rejected for a missing
\* image; in the stages AwaitingExpiryImage and ProcessingExpiryImage the name image
\* is present and is the one whose extraction succeeded last.
C25_ConfirmedImages ==
    /\ scanStage = CONFIRM_DETAILS =>
         /\ currentNameImage # NoImage /\ currentExpiryImage # NoImage
         /\ currentNameImage = succeeded.name
         /\ currentExpiryImage = succeeded.expiry
         /\ SaveRejection(editedName, currentNameImage, currentExpiryImage)
                # MsgImagesRequired
    /\ scanStage \in {AWAITING_EXPIRY_IMAGE, PROCESSING_EXPIRY_IMAGE} =>
         /\ currentNameImage # NoImage
         /\ currentNameImage = succeeded.name
    /\ error # MsgImagesRequired

\* the details are shown for the second time, after a round of Retake All
C25_Witness ==
    /\ scanStage = CONFIRM_DETAILS
    /\ succeeded.rounds = 1
    /\ event = "expiryExtracted"
    /\ frames = 4

\* C26: a start never loses the collection an earlier run has saved.  The load effect
\* reads the slot before anything has been written to it, and when the effects of the
\* mount and the render of what was loaded are done, the collection in memory and the
\* slot both hold the collection that was saved.
C26_StartupKeepsStored ==
    /\ [][event' = "loadProducts" =>
            /\ storage = JSON_stringify(<<StoredProduct>>)
            /\ writeFailures = 0
            /\ queued' = <<(<<StoredProduct>>)>>]_vars
    /\ [](boot = "ready" /\ event = "renderLoaded" =>
            /\ products = <<StoredProduct>>
            /\ storage = JSON_stringify(<<StoredProduct>>))

\* C27: when every extraction call settles, a processing stage always comes to an end:
\* the stage becomes an awaiting stage or ConfirmDetails with the loading flag false;
\* and the loading flag is true exactly in the processing stages.
C27_ProcessingEnds ==
    /\ (scanStage \in Processing) ~>
           (/\ scanStage \in {AWAITING_NAME_IMAGE, AWAITING_EXPIRY_IMAGE, CONFIRM_DETAILS}
            /\ ~isLoading)
    /\ [](isLoading <=> scanStage \in Processing)

\* both processing stages have come to an end, the second with the details
C27_Witness ==
    /\ event = "expiryExtracted"
    /\ scanStage = CONFIRM_DETAILS
    /\ ~isLoading
    /\ inflight = <<>>
    /\ frames = 2

\* C28: the recipe feature and the scan workflow do not interfere.  While a recipe
\* request is pending, every handler of the scan workflow and the deletion is on
\* offer as the view alone decides, and the modal can be closed; the completion of
\* the request changes the recipes, the recipe error and the fetching flag only; the
\* completion of an extraction changes nothing of the recipe feature; and at most one
\* recipe request is pending, exactly while the fetching flag is set.
C28_NoInterference ==
    /\ [](isFetchingRecipes =>
            /\ renderContent = "idle" => ENABLED HandleStartScan
            /\ renderContent = "idle" /\ products # <<>> => ENABLED HandleDeleteProduct
            /\ renderContent = "nameCamera" =>
                 ENABLED HandleNameImageCapture /\ ENABLED HandleCancelScan
            /\ renderContent = "expiryCamera" =>
                 ENABLED HandleExpiryImageCapture /\ ENABLED HandleCancelScan
            /\ renderContent = "spinner" =>
                 ENABLED NameImageResumes \/ ENABLED ExpiryImageResumes
            /\ renderContent = "confirm" =>
                 /\ nextId <= MaxIds => ENABLED HandleSaveProduct
                 /\ ENABLED HandleRetakeAll
            /\ isRecipeModalOpen => ENABLED CloseRecipeModal)
    /\ [][recipeCalls' # recipeCalls /\ event' # "suggestRecipes" =>
            /\ event' \in {"recipesArrived", "noRecipes", "recipesFailed"}
            /\ ~isFetchingRecipes'
            /\ UNCHANGED <<scanStage, sessionVars, error, products, storage, isLoading,
                           inflight, isRecipeModalOpen>>]_vars
    /\ [][inflight' # inflight =>
            UNCHANGED <<isFetchingRecipes, recipes, recipeError, isRecipeModalOpen,
                        recipeCalls>>]_vars
    /\ [](Len(recipeCalls) <= 1 /\ (isFetchingRecipes <=> recipeCalls # <<>>))

\* a recipe request has been answered while the extraction of a scan that was started
\* after it is pending
C28_Witness ==
    /\ event = "recipesArrived"
    /\ HasRecipes(recipes)
    /\ scanStage = PROCESSING_NAME_IMAGE
    /\ inflight # <<>>

=============================================================================
